---- MODULE Spec2Model ----
(***************************************************************************)
(* The four code generators of derive/src/lib.rs (add_greet!, derive Greet, *)
(* #[greet(content = ...)], derive Greet2 with #[greet2(content = ...)]),   *)
(* the second-stage build of their expansion in the host crate and the     *)
(* call of the generated greet (app/src/main.rs, app/examples).            *)
(*                                                                         *)
(* A token stream is modelled by the syntax it carries: an item is a       *)
(* record of its attributes, visibility, keyword, name, generics and       *)
(* fields; an expansion is a sequence of nodes (declarations, impl blocks, *)
(* compile_error! invocations).  A format template is the sequence of its  *)
(* literal pieces and placeholders.                                        *)
(***************************************************************************)
EXTENDS Integers, Sequences, FiniteSets, TLC

VARIABLES inv

vars == <<inv>>

\* ------------------------------------------------------------- bounds
MaxFields == 2
MaxArgs == 2
MaxCalls == 1

\* Invocation contexts: two independent expansions (translation units).
Slots == {"a", "b"}

SeqsUpTo(S, n) == UNION {[1..k -> S] : k \in 0..n}

\* ------------------------------------------------------------- templates
\* lib.rs:27,48: the positional format string of add_greet and Greet.
DefaultFmt == <<"Hello, my name is ", "{}", " and I am ", "{}", " years old.">>

\* examples/use_attribute_macro.rs:3: the content string of the examples.
ExampleContent == <<"Hello, my name is ", "{name}", "  and I a ", "{age}", " years old.">>

\* Other content strings a host may configure: placeholders in the other
\* order, and a template that never uses age.
SwappedContent == <<"{age}", ": ", "{name}">>
NameOnlyContent == <<"Hi ", "{name}">>

Contents == {ExampleContent, SwappedContent, NameOnlyContent}

NoContent == <<>>

\* ------------------------------------------------------------- attribute arguments
\* A nested meta `key = literal`; ty is the literal's type.
ContentMeta(t) == [key |-> "content", ty |-> "str", val |-> t]
IntContentMeta == [key |-> "content", ty |-> "int", val |-> NoContent]
TitleMeta == [key |-> "title", ty |-> "str", val |-> <<"x">>]

MetaPool == {ContentMeta(t) : t \in Contents} \cup {IntContentMeta, TitleMeta}

\* Attribute arguments: either tokens that are no meta list, or a meta list.
NotAMetaList == [ok |-> FALSE, metas |-> <<>>]
NoArgs == [ok |-> TRUE, metas |-> <<>>]
ArgsDomain == {NotAMetaList} \cup {[ok |-> TRUE, metas |-> m] : m \in SeqsUpTo(MetaPool, MaxArgs)}

\* ------------------------------------------------------------- items
AllowAttr == [path |-> "allow", args |-> NoArgs]
Greet2Attr(a) == [path |-> "greet2", args |-> a]

NameField == [attrs |-> <<>>, vis |-> "", ident |-> "name", ty |-> "String"]
AgeField == [attrs |-> <<>>, vis |-> "", ident |-> "age", ty |-> "u32"]
EmailField == [attrs |-> <<AllowAttr>>, vis |-> "pub", ident |-> "email", ty |-> "String"]
FieldPool == {NameField, AgeField, EmailField}

\* Named field lists: distinct field names, at most MaxFields of them.
NamedFieldLists ==
    {fs \in SeqsUpTo(FieldPool, MaxFields) :
        \A i, j \in DOMAIN fs : i # j => fs[i].ident # fs[j].ident}

\* The fields of a tuple struct carry no name.
TupleFields ==
    << [attrs |-> <<>>, vis |-> "", ident |-> "", ty |-> "String"],
       [attrs |-> <<>>, vis |-> "", ident |-> "", ty |-> "u32"] >>

\* (keyword, shape, fields) of the declarations the inputs range over.
Bodies ==
    {[kw |-> "struct", shape |-> "named", fields |-> fs] : fs \in NamedFieldLists}
    \cup {[kw |-> "struct", shape |-> "unnamed", fields |-> TupleFields],
          [kw |-> "struct", shape |-> "unit", fields |-> <<>>],
          [kw |-> "enum", shape |-> "variants", fields |-> <<>>],
          [kw |-> "union", shape |-> "named", fields |-> <<NameField, AgeField>>]}

Item(attrs, vis, generics, b) ==
    [attrs |-> attrs, vis |-> vis, kw |-> b.kw, ident |-> "Person",
     generics |-> generics, shape |-> b.shape, fields |-> b.fields]

Visibilities == {"", "pub"}
GenericsDomain == {"", "<const N: usize>"}
PlainAttrLists == {<<>>, <<AllowAttr>>}

\* Declarations (struct, enum, union) without a greet2 attribute.
DeclItems ==
    {Item(a, v, g, b) : a \in PlainAttrLists, v \in Visibilities,
                        g \in GenericsDomain, b \in Bodies}

\* An item that is no struct, enum or union.
FnItem ==
    [attrs |-> <<>>, vis |-> "", kw |-> "fn", ident |-> "Person",
     generics |-> "", shape |-> "unit", fields |-> <<>>]

\* Declarations under #[derive(Greet2)]: with or without a #[greet2(...)]
\* block, which may follow another attribute.
Greet2AttrLists ==
    PlainAttrLists
    \cup {<<Greet2Attr(a)>> : a \in ArgsDomain}
    \cup {<<AllowAttr, Greet2Attr(a)>> : a \in {NotAMetaList, NoArgs} \cup
              {[ok |-> TRUE, metas |-> <<m>>] : m \in MetaPool}}

Greet2Items ==
    {Item(a, v, g, b) : a \in Greet2AttrLists, v \in Visibilities,
                        g \in GenericsDomain, b \in Bodies}

Generators == {"add_greet", "Greet", "greet", "Greet2"}

\* The (generator, input, arguments) triples of an invocation.  A derive is
\* only ever handed a struct, enum or union; only greet receives arguments.
Invocations ==
    {[gen |-> "add_greet", input |-> i, args |-> NoArgs] : i \in DeclItems \cup {FnItem}}
    \cup {[gen |-> "Greet", input |-> i, args |-> NoArgs] : i \in DeclItems}
    \cup {[gen |-> "greet", input |-> i, args |-> a] : i \in DeclItems \cup {FnItem}, a \in ArgsDomain}
    \cup {[gen |-> "Greet2", input |-> i, args |-> NoArgs] : i \in Greet2Items}

\* ------------------------------------------------------------- syn
\* parse_macro_input!(input as DeriveInput): a struct, enum or union parses.
ParsesAsDeriveInput(text) == text.kw \in {"struct", "enum", "union"}

DataVariant(kw) ==
    CASE kw = "struct" -> "Struct"
      [] kw = "enum" -> "Enum"
      [] kw = "union" -> "Union"
      [] OTHER -> "None"

\* syn::DeriveInput { attrs, vis, ident, generics, data }.
ParseDeriveInput(text) ==
    [attrs |-> text.attrs, vis |-> text.vis, ident |-> text.ident,
     generics |-> text.generics,
     data |-> [variant |-> DataVariant(text.kw), shape |-> text.shape,
               fields |-> text.fields]]

NoDeriveInput ==
    [attrs |-> <<>>, vis |-> "", ident |-> "", generics |-> "",
     data |-> [variant |-> "None", shape |-> "unit", fields |-> <<>>]]

KeywordOf(variant) ==
    CASE variant = "Struct" -> "struct"
      [] variant = "Enum" -> "enum"
      [] variant = "Union" -> "union"
      [] OTHER -> "fn"

\* A declaration node of an expansion.
Decl(attrs, vis, kw, ident, generics, shape, fields) ==
    [node |-> "decl", attrs |-> attrs, vis |-> vis, kw |-> kw, ident |-> ident,
     generics |-> generics, shape |-> shape, fields |-> fields]

\* `#input` in quote!: DeriveInput's ToTokens writes the attributes, the
\* visibility, the keyword, the name, the generics and the body.
ToTokens(di) ==
    Decl(di.attrs, di.vis, KeywordOf(di.data.variant), di.ident, di.generics,
         di.data.shape, di.data.fields)

\* The declaration the host source text itself holds.
SourceDecl(text) ==
    Decl(text.attrs, text.vis, text.kw, text.ident, text.generics, text.shape,
         text.fields)

\* The compile_error! a failed parse_macro_input! returns.
SynError == [node |-> "compile_error", kind |-> "syn", at |-> "input"]

\* ------------------------------------------------------------- darling
DarlingError(kind, at) == [kind |-> kind, at |-> at]

NoAcc == [seen |-> FALSE, content |-> NoContent, errors |-> <<>>]

\* One nested meta handled by the derived FromMeta / FromDeriveInput of a
\* struct whose only field is `content: String`.
HandleMeta(acc, m) ==
    IF m.key = "content"
    THEN IF acc.seen
         THEN [acc EXCEPT !.errors = Append(@, DarlingError("duplicate_field", "content"))]
         ELSE IF m.ty = "str"
              THEN [acc EXCEPT !.seen = TRUE, !.content = m.val]
              ELSE [acc EXCEPT !.seen = TRUE,
                               !.errors = Append(@, DarlingError("unexpected_type", "content"))]
    ELSE [acc EXCEPT !.errors = Append(@, DarlingError("unknown_field", m.key))]

RECURSIVE HandleMetas(_, _)
HandleMetas(acc, metas) ==
    IF metas = <<>> THEN acc
    ELSE HandleMetas(HandleMeta(acc, Head(metas)), Tail(metas))

\* Mutant: content is optional (#[darling(default)]), a missing key is no error.
Finish_optional(acc) ==
    [ok |-> acc.errors = <<>>, content |-> acc.content, errors |-> acc.errors]

\* A field never given is reported as missing; any error makes the result Err.
Finish(acc) ==
    LET errs == IF acc.seen THEN acc.errors
                ELSE Append(acc.errors, DarlingError("missing_field", "content"))
    IN  [ok |-> errs = <<>>, content |-> acc.content, errors |-> errs]

\* GreetArgs::from_list(&attr_args).
GreetArgs_from_list(metas) == Finish(HandleMetas(NoAcc, metas))

\* Greet2Args::from_derive_input(&input): every #[greet2(...)] attribute of
\* the item is read, the other attributes are skipped.
RECURSIVE HandleAttrs(_, _)
HandleAttrs(acc, attrs) ==
    IF attrs = <<>> THEN acc
    ELSE LET a == Head(attrs)
             next == IF a.path # "greet2" THEN acc
                     ELSE IF a.args.ok THEN HandleMetas(acc, a.args.metas)
                     ELSE [acc EXCEPT !.errors = Append(@, DarlingError("syn", "greet2"))]
         IN  HandleAttrs(next, Tail(attrs))

Greet2Args_from_derive_input(di) == Finish(HandleAttrs(NoAcc, di.attrs))

\* Error::write_errors(): one compile_error! per accumulated error.
write_errors(errors) ==
    [i \in DOMAIN errors |->
        [node |-> "compile_error", kind |-> errors[i].kind, at |-> errors[i].at]]

\* ------------------------------------------------------------- quote!
\* impl #struct_name { fn greet(&self) { println!(fmt, pos.., named..) } }
\* pos are the fields of self passed positionally, named those passed as
\* `field = self.field`.
ImplGreet(struct_name, fmt, pos, named) ==
    [node |-> "impl", target |-> struct_name, method |-> "greet", fmt |-> fmt,
     pos |-> pos, named |-> named]

\* lib.rs:20-30
add_greet_expanded(struct_name, fields) ==
    << Decl(<<>>, "", "struct", struct_name, "", "named", fields),
       ImplGreet(struct_name, DefaultFmt, <<"name", "age">>, <<>>) >>

\* Mutant: the derive also emits a declaration of the type.
greet_derive_expanded_with_decl(struct_name) ==
    << Decl(<<>>, "", "struct", struct_name, "", "named", <<>>),
       ImplGreet(struct_name, DefaultFmt, <<"name", "age">>, <<>>) >>

\* lib.rs:45-51
greet_derive_expanded(struct_name) ==
    << ImplGreet(struct_name, DefaultFmt, <<"name", "age">>, <<>>) >>

\* Mutant: the item is re-declared from its name and fields, as add_greet does.
greet_expanded_redeclared(input, struct_name, content) ==
    << Decl(<<>>, "", "struct", struct_name, "", "named", input.data.fields),
       ImplGreet(struct_name, content, <<>>, <<"name", "age">>) >>

\* lib.rs:82-90
greet_expanded(input, struct_name, content) ==
    << ToTokens(input), ImplGreet(struct_name, content, <<>>, <<"name", "age">>) >>

\* Mutant: the configured content is dropped for the default format string.
greet2_expanded_default(struct_name, content) ==
    << ImplGreet(struct_name, DefaultFmt, <<"name", "age">>, <<>>) >>

\* lib.rs:110-116
greet2_expanded(struct_name, content) ==
    << ImplGreet(struct_name, content, <<>>, <<"name", "age">>) >>

\* ------------------------------------------------------------- second stage: build and run
Range(f) == {f[i] : i \in DOMAIN f}

\* The name of the argument a placeholder names ("" for a literal piece).
ArgName(piece) ==
    CASE piece = "{name}" -> "name"
      [] piece = "{age}" -> "age"
      [] OTHER -> ""

\* format_args!: every `{}` takes the next positional argument, every named
\* argument must be used, every named placeholder must be given.
FormatBuilds(fmt, pos, named) ==
    /\ Cardinality({i \in DOMAIN fmt : fmt[i] = "{}"}) = Len(pos)
    /\ \A i \in DOMAIN named : \E j \in DOMAIN fmt : ArgName(fmt[j]) = named[i]
    /\ \A j \in DOMAIN fmt : ArgName(fmt[j]) # "" => ArgName(fmt[j]) \in Range(named)

\* self.f is a readable field of the declared type.
FieldReadable(d, f) ==
    /\ d.kw = "struct"
    /\ d.shape = "named"
    /\ \E i \in DOMAIN d.fields : d.fields[i].ident = f

DeclBuilds(d) ==
    /\ d.kw \in {"struct", "enum"}
    /\ d.shape = "named" => \A i \in DOMAIN d.fields : d.fields[i].ident # ""

ImplBuilds(program, m) ==
    /\ Cardinality({i \in DOMAIN program :
                      program[i].node = "decl" /\ program[i].ident = m.target}) = 1
    /\ \A i \in DOMAIN program :
          (program[i].node = "decl" /\ program[i].ident = m.target) =>
              /\ program[i].generics = ""
              /\ \A f \in Range(m.pos) \cup Range(m.named) : FieldReadable(program[i], f)
    /\ FormatBuilds(m.fmt, m.pos, m.named)

\* The host crate after expansion: a derive adds to the annotated item, a
\* function-like or attribute macro replaces its input by its output.
Program(r) ==
    IF r.gen \in {"Greet", "Greet2"} THEN <<SourceDecl(r.input)>> \o r.out ELSE r.out

Builds(program) ==
    \A i \in DOMAIN program :
        /\ program[i].node # "compile_error"
        /\ program[i].node = "decl" => DeclBuilds(program[i])
        /\ program[i].node = "impl" => ImplBuilds(program, program[i])

\* Display of a field of the instance.
Display(ty, v) == IF ty = "u32" THEN ToString(v) ELSE v

FieldType(d, f) == d.fields[CHOOSE i \in DOMAIN d.fields : d.fields[i].ident = f].ty

PosIndex(fmt, i) == Cardinality({j \in 1..i : fmt[j] = "{}"})

\* println!(fmt, pos.., named..) on the instance self of declaration d: the
\* line printed, piece by piece.
Println(d, m, self) ==
    [i \in DOMAIN m.fmt |->
        IF m.fmt[i] = "{}"
        THEN LET f == m.pos[PosIndex(m.fmt, i)] IN Display(FieldType(d, f), self[f])
        ELSE IF ArgName(m.fmt[i]) # ""
        THEN LET f == ArgName(m.fmt[i]) IN Display(FieldType(d, f), self[f])
        ELSE m.fmt[i]]

\* main.rs:12-15: the instances the host constructs.
Names == {"Hieu", "An"}
Ages == {24, 30}

\* ------------------------------------------------------------- state
FirstStatement(gen) == IF gen = "greet" THEN "parse_meta_list" ELSE "parse_input"

\* An invocation about to run: nothing parsed, nothing emitted.
NewSlot(i) ==
    [gen |-> i.gen, input |-> i.input, args |-> i.args, pc |-> FirstStatement(i.gen),
     di |-> NoDeriveInput, attr_args |-> <<>>, content |-> NoContent, fields |-> <<>>,
     outcome |-> "running", out |-> <<>>, panic |-> "", stderr |-> <<>>,
     item_parsed |-> FALSE, built |-> "no", selfs |-> <<>>, stdout |-> <<>>]

\* A context in which no generator is invoked.
OffSlot ==
    [gen |-> "none", input |-> FnItem, args |-> NoArgs, pc |-> "off",
     di |-> NoDeriveInput, attr_args |-> <<>>, content |-> NoContent, fields |-> <<>>,
     outcome |-> "off", out |-> <<>>, panic |-> "", stderr |-> <<>>,
     item_parsed |-> FALSE, built |-> "no", selfs |-> <<>>, stdout |-> <<>>]

Init == \E i \in Invocations : inv = [s \in Slots |-> IF s = "a" THEN NewSlot(i) ELSE OffSlot]

\* `return tokens` / the end of the generator function.
Return(r, tokens) == [r EXCEPT !.pc = "returned", !.outcome = "tokens", !.out = tokens]

\* panic!(msg) inside the generator: nothing is emitted.
Panic(r, msg) == [r EXCEPT !.pc = "panicked", !.outcome = "panic", !.panic = msg]

\* The generator has ended, by a return or by a panic.
Finished(r) == r.pc \in {"returned", "panicked"}

\* parse_macro_input!(input as DeriveInput): on failure the generator returns
\* the error as compile_error! tokens.
ParseMacroInput(r, next) ==
    IF ParsesAsDeriveInput(r.input)
    THEN [r EXCEPT !.di = ParseDeriveInput(r.input), !.item_parsed = TRUE, !.pc = next]
    ELSE Return([r EXCEPT !.item_parsed = TRUE], <<SynError>>)

\* ------------------------------------------------------------- add_greet
add_greet_parse(s) ==
    /\ inv[s].gen = "add_greet" /\ inv[s].pc = "parse_input"
    /\ inv' = [inv EXCEPT ![s] = ParseMacroInput(inv[s], "match_data")]

\* Mutant: the data is not matched, every declaration is taken for a struct.
add_greet_match_any(s) ==
    LET r == inv[s]
    IN  /\ r.gen = "add_greet" /\ r.pc = "match_data"
        /\ inv' = [inv EXCEPT ![s] = [r EXCEPT !.fields = r.di.data.fields, !.pc = "quote"]]

add_greet_match(s) ==
    LET r == inv[s]
    IN  /\ r.gen = "add_greet" /\ r.pc = "match_data"
        /\ inv' = [inv EXCEPT ![s] =
                     IF r.di.data.variant = "Struct"
                     THEN [r EXCEPT !.fields = r.di.data.fields, !.pc = "quote"]
                     ELSE Panic(r, "Greet can only be derived for structs")]

\* Mutant: the fields are emitted in an unspecified order (as from a hash set).
add_greet_quote_unordered(s) ==
    LET r == inv[s]
        reversed == [i \in DOMAIN r.fields |-> r.fields[Len(r.fields) + 1 - i]]
    IN  /\ r.gen = "add_greet" /\ r.pc = "quote"
        /\ \E fs \in {r.fields, reversed} :
              inv' = [inv EXCEPT ![s] = Return(r, add_greet_expanded(r.di.ident, fs))]

add_greet_quote(s) ==
    LET r == inv[s]
    IN  /\ r.gen = "add_greet" /\ r.pc = "quote"
        /\ inv' = [inv EXCEPT ![s] = Return(r, add_greet_expanded(r.di.ident, r.fields))]

\* ------------------------------------------------------------- derive Greet
greet_derive_parse(s) ==
    /\ inv[s].gen = "Greet" /\ inv[s].pc = "parse_input"
    /\ inv' = [inv EXCEPT ![s] = ParseMacroInput(inv[s], "quote")]

greet_derive_quote(s) ==
    LET r == inv[s]
    IN  /\ r.gen = "Greet" /\ r.pc = "quote"
        /\ inv' = [inv EXCEPT ![s] = Return(r, greet_derive_expanded(r.di.ident))]

\* ------------------------------------------------------------- #[greet(...)]
greet_parse_meta_list(s) ==
    LET r == inv[s]
    IN  /\ r.gen = "greet" /\ r.pc = "parse_meta_list"
        /\ inv' = [inv EXCEPT ![s] =
                     IF r.args.ok
                     THEN [r EXCEPT !.attr_args = r.args.metas, !.pc = "from_list"]
                     ELSE Return(r, write_errors(<<DarlingError("syn", "args")>>))]

\* Mutant: a configuration error ends every invocation still running.
greet_from_list_abort_all(s) ==
    LET r == inv[s]
        res == GreetArgs_from_list(r.attr_args)
    IN  /\ r.gen = "greet" /\ r.pc = "from_list"
        /\ inv' = [t \in Slots |->
                     IF t = s
                     THEN IF res.ok
                          THEN [r EXCEPT !.content = res.content, !.pc = "parse_input"]
                          ELSE Return(r, write_errors(res.errors))
                     ELSE IF res.ok \/ Finished(inv[t]) THEN inv[t]
                     ELSE Panic(inv[t], "aborted")]

\* Mutant: a configuration error is not returned, the item is parsed next.
greet_from_list_continue(s) ==
    LET r == inv[s]
        res == GreetArgs_from_list(r.attr_args)
    IN  /\ r.gen = "greet" /\ r.pc = "from_list"
        /\ inv' = [inv EXCEPT ![s] = [r EXCEPT !.content = res.content, !.pc = "parse_input"]]

greet_from_list(s) ==
    LET r == inv[s]
        res == GreetArgs_from_list(r.attr_args)
    IN  /\ r.gen = "greet" /\ r.pc = "from_list"
        /\ inv' = [inv EXCEPT ![s] =
                     IF res.ok
                     THEN [r EXCEPT !.content = res.content, !.pc = "parse_input"]
                     ELSE Return(r, write_errors(res.errors))]

greet_parse(s) ==
    /\ inv[s].gen = "greet" /\ inv[s].pc = "parse_input"
    /\ inv' = [inv EXCEPT ![s] = ParseMacroInput(inv[s], "quote")]

greet_quote(s) ==
    LET r == inv[s]
    IN  /\ r.gen = "greet" /\ r.pc = "quote"
        /\ inv' = [inv EXCEPT ![s] = Return(r, greet_expanded(r.di, r.di.ident, r.content))]

\* ------------------------------------------------------------- derive Greet2
greet2_parse(s) ==
    /\ inv[s].gen = "Greet2" /\ inv[s].pc = "parse_input"
    /\ inv' = [inv EXCEPT ![s] = ParseMacroInput(inv[s], "eprintln")]

\* eprintln!("{:#?}", input): the parsed input is dumped to stderr.
greet2_eprintln(s) ==
    LET r == inv[s]
    IN  /\ r.gen = "Greet2" /\ r.pc = "eprintln"
        /\ inv' = [inv EXCEPT ![s] =
                     [r EXCEPT !.stderr = Append(r.stderr, r.di), !.pc = "from_derive_input"]]

\* Mutant: the Err is written out as compile_error! tokens instead of unwrapped.
greet2_from_derive_input_graceful(s) ==
    LET r == inv[s]
        res == Greet2Args_from_derive_input(r.di)
    IN  /\ r.gen = "Greet2" /\ r.pc = "from_derive_input"
        /\ inv' = [inv EXCEPT ![s] =
                     IF res.ok
                     THEN [r EXCEPT !.content = res.content, !.pc = "quote"]
                     ELSE Return(r, write_errors(res.errors))]

greet2_from_derive_input(s) ==
    LET r == inv[s]
        res == Greet2Args_from_derive_input(r.di)
    IN  /\ r.gen = "Greet2" /\ r.pc = "from_derive_input"
        /\ inv' = [inv EXCEPT ![s] =
                     IF res.ok
                     THEN [r EXCEPT !.content = res.content, !.pc = "quote"]
                     ELSE Panic(r, "called Result::unwrap() on an Err value")]

greet2_quote(s) ==
    LET r == inv[s]
    IN  /\ r.gen = "Greet2" /\ r.pc = "quote"
        /\ inv' = [inv EXCEPT ![s] = Return(r, greet2_expanded(r.di.ident, r.content))]

\* ------------------------------------------------------------- host
\* The expansion is compiled with the rest of the host crate.  A generator
\* that panicked has failed the build already.
Build(s) ==
    /\ inv[s].pc = "returned" /\ inv[s].built = "no"
    /\ inv' = [inv EXCEPT ![s].built =
                 IF Builds(Program(inv[s])) THEN "ok" ELSE "failed"]

\* The impl block and the declaration of the built program.
ImplOf(program) == program[CHOOSE i \in DOMAIN program : program[i].node = "impl"]
DeclOf(program) == program[CHOOSE i \in DOMAIN program : program[i].node = "decl"]

\* main.rs:12-17: construct an instance and call hieu.greet().
CallGreet(s) ==
    /\ inv[s].built = "ok" /\ Len(inv[s].selfs) < MaxCalls
    /\ \E n \in Names, a \in Ages :
         LET program == Program(inv[s])
             d == DeclOf(program)
             self == [f \in {d.fields[i].ident : i \in DOMAIN d.fields} |->
                        IF f = "name" THEN n ELSE IF f = "age" THEN a ELSE "e"]
         IN  inv' = [inv EXCEPT ![s].selfs = Append(@, [name |-> n, age |-> a]),
                                ![s].stdout = Append(@, Println(d, ImplOf(program), self))]

Step(s) ==
    \/ add_greet_parse(s)
    \/ add_greet_match(s)
    \/ add_greet_quote(s)
    \/ greet_derive_parse(s)
    \/ greet_derive_quote(s)
    \/ greet_parse_meta_list(s)
    \/ greet_from_list(s)
    \/ greet_parse(s)
    \/ greet_quote(s)
    \/ greet2_parse(s)
    \/ greet2_eprintln(s)
    \/ greet2_from_derive_input(s)
    \/ greet2_quote(s)
    \/ Build(s)
    \/ CallGreet(s)

Next == \E s \in Slots : Step(s)

Spec == Init /\ [][Next]_vars

\* ------------------------------------------------------------- two concurrent invocations
\* Inputs of the specification with two invocations: plain records with or
\* without age, an enum, a non-declaration; absent, empty, valid, unknown-key
\* and unparsable configurations.
SmallArgs ==
    {NotAMetaList, NoArgs,
     [ok |-> TRUE, metas |-> <<ContentMeta(ExampleContent)>>],
     [ok |-> TRUE, metas |-> <<TitleMeta>>]}

SmallBodies ==
    {[kw |-> "struct", shape |-> "named", fields |-> <<NameField, AgeField>>],
     [kw |-> "struct", shape |-> "named", fields |-> <<NameField>>],
     [kw |-> "enum", shape |-> "variants", fields |-> <<>>]}

SmallItems == {Item(<<>>, "", "", b) : b \in SmallBodies}

SmallGreet2Items ==
    SmallItems \cup {Item(<<Greet2Attr(a)>>, "", "", b) : a \in SmallArgs, b \in SmallBodies}

SmallInvocations ==
    {[gen |-> "add_greet", input |-> i, args |-> NoArgs] : i \in SmallItems \cup {FnItem}}
    \cup {[gen |-> "Greet", input |-> i, args |-> NoArgs] : i \in SmallItems}
    \cup {[gen |-> "greet", input |-> i, args |-> a] : i \in SmallItems \cup {FnItem}, a \in SmallArgs}
    \cup {[gen |-> "Greet2", input |-> i, args |-> NoArgs] : i \in SmallGreet2Items}

Init2 == \E i, j \in SmallInvocations : inv = [s \in Slots |-> IF s = "a" THEN NewSlot(i) ELSE NewSlot(j)]

Spec2 == Init2 /\ [][Next]_vars

\* What an invocation yields when it runs on its own: lib.rs read as a
\* function from (generator, input, arguments) to (tokens | panic).
Yield(outcome, out, panic) == [outcome |-> outcome, out |-> out, panic |-> panic]

Alone(gen, input, args) ==
    LET di == ParseDeriveInput(input)
        a == GreetArgs_from_list(args.metas)
        a2 == Greet2Args_from_derive_input(di)
    IN  CASE gen = "greet" /\ ~args.ok ->
                Yield("tokens", write_errors(<<DarlingError("syn", "args")>>), "")
          [] gen = "greet" /\ args.ok /\ ~a.ok -> Yield("tokens", write_errors(a.errors), "")
          [] gen = "greet" /\ args.ok /\ a.ok /\ ParsesAsDeriveInput(input) ->
                Yield("tokens", greet_expanded(di, di.ident, a.content), "")
          [] gen # "greet" /\ ParsesAsDeriveInput(input) ->
                CASE gen = "add_greet" /\ di.data.variant = "Struct" ->
                        Yield("tokens", add_greet_expanded(di.ident, di.data.fields), "")
                  [] gen = "add_greet" /\ di.data.variant # "Struct" ->
                        Yield("panic", <<>>, "Greet can only be derived for structs")
                  [] gen = "Greet" -> Yield("tokens", greet_derive_expanded(di.ident), "")
                  [] gen = "Greet2" /\ a2.ok ->
                        Yield("tokens", greet2_expanded(di.ident, a2.content), "")
                  [] OTHER -> Yield("panic", <<>>, "called Result::unwrap() on an Err value")
          [] OTHER -> Yield("tokens", <<SynError>>, "")

\* ------------------------------------------------------------- what the claims speak of
\* The configuration of an invocation, read off its input: the arguments of
\* #[greet(...)], or those of the #[greet2(...)] block of the item.
Greet2Blocks(item) == {i \in DOMAIN item.attrs : item.attrs[i].path = "greet2"}

HasConfig(r) == r.gen = "greet" \/ (r.gen = "Greet2" /\ Greet2Blocks(r.input) # {})

ConfigOf(r) ==
    IF r.gen = "greet" THEN r.args
    ELSE r.input.attrs[CHOOSE i \in Greet2Blocks(r.input) : TRUE].args

\* Well formed: a meta list holding `content = "<string>"` and nothing else.
ValidConfig(r) ==
    /\ HasConfig(r)
    /\ ConfigOf(r).ok
    /\ Len(ConfigOf(r).metas) = 1
    /\ ConfigOf(r).metas[1].key = "content"
    /\ ConfigOf(r).metas[1].ty = "str"

ConfiguredContent(r) == ConfigOf(r).metas[1].val

\* A meta list without a content key.
LacksContentKey(c) == c.ok /\ \A i \in DOMAIN c.metas : c.metas[i].key # "content"

\* A content key whose value is no string.
NonStringContent(c) ==
    c.ok /\ \E i \in DOMAIN c.metas : c.metas[i].key = "content" /\ c.metas[i].ty # "str"

HasField(item, f) == \E i \in DOMAIN item.fields : item.fields[i].ident = f

Nodes(out, kind) == {i \in DOMAIN out : out[i].node = kind}

\* The default template as the specification words it.
SpecDefaultTemplate ==
    <<"Hello, my name is ", "{name}", " and I am ", "{age}", " years old.">>

\* The template with {name} and {age} replaced by the instance's values.
Substituted(template, name, age) ==
    [i \in DOMAIN template |->
        IF template[i] = "{name}" THEN name
        ELSE IF template[i] = "{age}" THEN ToString(age)
        ELSE template[i]]

TemplateOf(r) ==
    IF r.gen \in {"add_greet", "Greet"} THEN SpecDefaultTemplate ELSE ConfiguredContent(r)

C2_MissingContentDiagnosed ==
    \A s \in Slots :
        LET r == inv[s]
        IN  (r.gen = "greet" /\ LacksContentKey(r.args)
             /\ r.pc \notin {"parse_meta_list", "from_list"}) =>
                /\ r.pc = "returned" /\ r.outcome = "tokens"
                /\ \E i \in DOMAIN r.out :
                      r.out[i] = [node |-> "compile_error", kind |-> "missing_field",
                                  at |-> "content"]
                /\ Nodes(r.out, "impl") = {}

C2_Witness ==
    \E s \in Slots :
        /\ inv[s].gen = "greet" /\ inv[s].args.metas = <<TitleMeta>>
        /\ inv[s].input.kw = "struct"
        /\ inv[s].pc = "returned"
        /\ Len(inv[s].out) > 1

\* C3: add_greet! on an enum or a union panics with the only-structs message
\* and emits nothing; the failure is a panic, not returned tokens.
C3_NonStructPanics ==
    \A s \in Slots :
        LET r == inv[s]
        IN  (r.gen = "add_greet" /\ r.input.kw \in {"enum", "union"}
             /\ r.pc \notin {"parse_input", "match_data"}) =>
                /\ r.pc = "panicked" /\ r.outcome = "panic"
                /\ r.panic = "Greet can only be derived for structs"
                /\ r.out = <<>>
                /\ r.built = "no"

C3_Witness ==
    \E s \in Slots :
        /\ inv[s].gen = "add_greet" /\ inv[s].input.kw = "enum"
        /\ inv[s].pc = "panicked"

\* C4 (as claimed): on success add_greet! emits the input record unchanged
\* (attributes, visibility, generics, field shape and fields) and one impl of
\* greet with the default template.
C4_RedeclaredUnchanged ==
    \A s \in Slots :
        LET r == inv[s]
        IN  (r.gen = "add_greet" /\ r.pc = "returned" /\ r.input.kw = "struct") =>
                /\ Len(r.out) = 2
                /\ r.out[1] = SourceDecl(r.input)
                /\ r.out[2] = ImplGreet(r.input.ident, DefaultFmt, <<"name", "age">>, <<>>)

\* C5: with a valid configuration and an item that parses, #[greet(...)] emits
\* the annotated declaration verbatim, then one impl whose greet formats the
\* configured content (not the default template) with name and age.
C5_GreetEmitsItemAndImpl ==
    \A s \in Slots :
        LET r == inv[s]
        IN  (r.gen = "greet" /\ ValidConfig(r) /\ r.input.kw \in {"struct", "enum", "union"}
             /\ Finished(r)) =>
                /\ r.outcome = "tokens"
                /\ Len(r.out) = 2
                /\ r.out[1] = SourceDecl(r.input)
                /\ r.out[2].node = "impl"
                /\ r.out[2].target = r.input.ident
                /\ r.out[2].method = "greet"
                /\ r.out[2].fmt = ConfiguredContent(r)
                /\ r.out[2].fmt # DefaultFmt
                /\ r.out[2].pos = <<>>
                /\ r.out[2].named = <<"name", "age">>

C5_Witness ==
    \E s \in Slots :
        /\ inv[s].gen = "greet" /\ inv[s].pc = "returned"
        /\ inv[s].args.metas = <<ContentMeta(ExampleContent)>>
        /\ inv[s].input.vis = "pub" /\ inv[s].input.attrs = <<AllowAttr>>
        /\ inv[s].input.generics # ""
        /\ inv[s].input.fields = <<NameField, AgeField>>
        /\ Len(inv[s].out) = 2

\* C6: derive Greet2 with no #[greet2(...)] block, no content key, or a
\* content that is no string panics on the unwrap: no impl is emitted and no
\* diagnostic is returned.
C6_Greet2ConfigPanics ==
    \A s \in Slots :
        LET r == inv[s]
        IN  (/\ r.gen = "Greet2"
             /\ \/ ~HasConfig(r)
                \/ HasConfig(r) /\ LacksContentKey(ConfigOf(r))
                \/ HasConfig(r) /\ NonStringContent(ConfigOf(r))
             /\ r.pc \notin {"parse_input", "eprintln", "from_derive_input"}) =>
                /\ r.pc = "panicked" /\ r.outcome = "panic"
                /\ r.out = <<>>
                /\ r.built = "no"

C6_Witness ==
    \E s \in Slots :
        /\ inv[s].gen = "Greet2" /\ ~HasConfig(inv[s])
        /\ inv[s].input.fields = <<NameField, AgeField>>
        /\ inv[s].pc = "panicked"

\* C7: derive Greet succeeds on every declaration whatever its fields and
\* emits the impl only (greet reading self.name and self.age, no
\* re-declaration, no diagnostic); without name or age it is the build of the
\* generated code that fails.
C7_GreetDeriveEmitsImplOnly ==
    \A s \in Slots :
        LET r == inv[s]
        IN  (r.gen = "Greet" /\ r.pc \notin {"parse_input", "quote"}) =>
                /\ r.pc = "returned" /\ r.outcome = "tokens"
                /\ r.out = <<ImplGreet(r.input.ident, DefaultFmt, <<"name", "age">>, <<>>)>>
                /\ Nodes(r.out, "decl") = {} /\ Nodes(r.out, "compile_error") = {}
                /\ (r.built # "no" /\ ~(HasField(r.input, "name") /\ HasField(r.input, "age")))
                      => r.built = "failed"

C7_Witness ==
    \E s \in Slots :
        /\ inv[s].gen = "Greet" /\ inv[s].input.kw = "struct"
        /\ inv[s].input.fields = <<NameField>>
        /\ inv[s].pc = "returned" /\ inv[s].built = "failed"

FrameStep ==
    \A s \in Slots : inv'[s] # inv[s] => \A t \in Slots \ {s} : inv'[t] = inv[t]

OwnInputOnly ==
    \A s \in Slots :
        Finished(inv[s]) =>
            Yield(inv[s].outcome, inv[s].out, inv[s].panic)
                = Alone(inv[s].gen, inv[s].input, inv[s].args)

C9_FailureIsolation == [][FrameStep]_vars /\ []OwnInputOnly

C9_Witness ==
    /\ inv["a"].gen = "greet" /\ LacksContentKey(inv["a"].args)
    /\ inv["a"].pc = "returned"
    /\ inv["b"].gen = "greet" /\ ValidConfig(inv["b"])
    /\ inv["b"].built = "ok" /\ Len(inv["b"].stdout) = 1

\* C10: #[greet(...)] validates its configuration before it parses the item
\* and returns at the first failure: with an invalid configuration the item is
\* never parsed and the output is the configuration diagnostic alone (no
\* declaration, no impl, no item error); an item error is reported only under
\* a valid configuration.
C10_ConfigBeforeItem ==
    \A s \in Slots :
        LET r == inv[s]
        IN  r.gen = "greet" =>
                /\ ~ValidConfig(r) => ~r.item_parsed
                /\ (~ValidConfig(r) /\ r.pc \notin {"parse_meta_list", "from_list"}) =>
                      /\ r.pc = "returned"
                      /\ r.out # <<>>
                      /\ \A i \in DOMAIN r.out :
                            r.out[i].node = "compile_error" /\ r.out[i] # SynError
                /\ SynError \in Range(r.out) => ValidConfig(r)

C10_Witness ==
    \E s \in Slots :
        /\ inv[s].gen = "greet" /\ inv[s].args = NotAMetaList
        /\ inv[s].input.kw = "fn"
        /\ inv[s].pc = "returned"

====
